---- MODULE Spec2Model ----
(***************************************************************************)
(* DriveSafe UK backend (backend/server.py): the community-report          *)
(* lifecycle -- rate limiting, duplicate merging, TTL assignment, lazy     *)
(* expiry -- over a MongoDB store, with the request handlers interleaving  *)
(* at their awaits.                                                        *)
(*                                                                         *)
(* Time is an integer number of ticks, TicksPerMinute ticks to the minute, *)
(* so that fractions of a minute exist.  Coordinates are integer           *)
(* microdegrees.  Distances are integer decimetres.                        *)
(***************************************************************************)
EXTENDS Integers, Sequences, FiniteSets, TLC

\* ------------------------------------------------------------------ bounds
TicksPerMinute == 2    \* resolution of the clock
MaxTime == 2           \* the clock stops advancing here (ticks)
MaxReports == 4        \* no report is constructed beyond this many records
NumProcs == 2          \* create_report requests in flight at once
MaxRequests == 3       \* create_report requests started in one behaviour
MaxQueriedRequests == 2 \* the same, in the behaviours with proximity queries
MaxCameras == 3        \* no camera is added beyond this many records
MaxWaitTime == 3       \* the clock's last tick in the behaviours on wait times

Procs == 1..NumProcs

\* ------------------------------------------------------------ coordinates
\* Sample coordinates, (latitude, longitude) in microdegrees:
\*   1  (51.5000, -0.1200)   the scenario's first submission
\*   2  (51.5009, -0.1209)   about 118 m from 1
\*   3  (53.4808, -2.2426)   Manchester, about 263 km from 1
\*   4  (95.0000, -0.1200)   latitude outside [-90, 90]
\*   5  ( 0.0000, 179.9900)   just west of the 180 degree meridian
\*   6  ( 0.0000, -179.9900)  just east of it, about 2.2 km from 5
\*   7  (89.9000, 0.0000)     about 11 km from the pole
\*   8  (89.9000, 90.0000)    the same, a quarter turn on, about 15.7 km from 7
Points == 1..8
Lat == <<51500000, 51500900, 53480800, 95000000, 0, 0, 89900000, 89900000>>
Lon == <<-120000, -120900, -2242600, -120000, 179990000, -179990000, 0, 90000000>>

PointOf(lat, lon) == CHOOSE p \in Points : Lat[p] = lat /\ Lon[p] = lon

\* R * 2 * atan2(sqrt(a), sqrt(1-a)) of the source, evaluated for every pair
\* of sample coordinates, in decimetres.
HaversineDm ==
  << <<0, 1179, 2629668, 48369793, 142885387, 142885350, 42698852, 42810402>>,
     <<1179, 0, 2628489, 48368792, 142884385, 142884348, 42697851, 42809403>>,
     <<2629668, 2628489, 0, 46163824, 140647128, 140646484, 40496388, 40611980>>,
     <<48369793, 48368792, 46163824, 0, 94515698, 94515702, 5670941, 5560623>>,
     <<142885387, 142884385, 140647128, 94515698, 0, 22239, 100186629, 100075415>>,
     <<142885350, 142884348, 140646484, 94515702, 22239, 0, 100186629, 100075453>>,
     <<42698852, 42697851, 40496388, 5670941, 100186629, 100186629, 0, 157253>>,
     <<42810402, 42809403, 40611980, 5560623, 100075415, 100075453, 157253, 0>> >>

haversine_distance(lat1, lon1, lat2, lon2) ==
  HaversineDm[PointOf(lat1, lon1)][PointOf(lat2, lon2)]

\* The exact-distance test left out: whatever the bounding box lets through
\* counts as within the radius
WithinBoundingBoxOnly(distDm, meters) == TRUE

\* distance <= meters, for a distance in decimetres
WithinMeters(distDm, meters) == distDm <= meters * 10

\* cos(radians(lat)) * 10^4, rounded, for the sample latitudes
CosE4(lat) ==
  CASE lat = 51500000 -> 6225
    [] lat = 51500900 -> 6225
    [] lat = 53480800 -> 5951
    [] lat = 95000000 -> -872
    [] lat = 0        -> 10000
    [] lat = 89900000 -> 17

\* The box around (lat, lon), its edges kept to the microdegree
get_bounding_box(lat, lon, radius_m) ==
  LET lat_delta == (radius_m * 1000) \div 111
      lon_delta == IF CosE4(lat) > 0
                     THEN (lat_delta * 10000) \div CosE4(lat)
                     ELSE -(((lat_delta * 10000)) \div (-CosE4(lat)))
  IN  [min_lat |-> lat - lat_delta, max_lat |-> lat + lat_delta,
       min_lon |-> lon - lon_delta, max_lon |-> lon + lon_delta]

\* ---------------------------------------------------------------- settings
AppSettings(mc, pc_, rad, win, rl) ==
  [mobile_camera_ttl_minutes |-> mc, police_check_ttl_minutes |-> pc_,
   duplicate_radius_meters |-> rad, duplicate_time_window_minutes |-> win,
   rate_limit_minutes |-> rl]

DefaultSettings == AppSettings(75, 52, 200, 15, 5)

\* the settings documents an administrator posts in this model
SettingsChoices ==
  { AppSettings(1, 2, 200, 2, 1) }

NoDoc == [none |-> TRUE]

\* timedelta(minutes=m), in ticks
minutes(m) == m * TicksPerMinute

\* round(x / 60) in place of int(x / 60): to the nearest whole minute, halves
\* to the even one
RoundMinutes(ticks) ==
  LET a == IF ticks >= 0 THEN ticks ELSE -ticks
      q == a \div TicksPerMinute
      r == a % TicksPerMinute
      m == IF 2 * r < TicksPerMinute THEN q
           ELSE IF 2 * r > TicksPerMinute THEN q + 1
           ELSE IF q % 2 = 0 THEN q ELSE q + 1
  IN  IF ticks >= 0 THEN m ELSE -m

\* int(x / 60) of a number of seconds: truncation toward zero, here of ticks
\* to whole minutes
IntMinutes(ticks) ==
  IF ticks >= 0 THEN ticks \div TicksPerMinute
                ELSE -((-ticks) \div TicksPerMinute)

\* ------------------------------------------------------------------ inputs
\* CommunityReportCreate: latitude, longitude, report_type, user_id.  The
\* model accepts whatever the pydantic model accepts: any float pair and any
\* two strings.
Submission(u, t, p) ==
  [latitude |-> Lat[p], longitude |-> Lon[p], report_type |-> t, user_id |-> u]

\* well-formed submissions: both report types, two submitters, a pair of
\* coordinates 118 m apart and one far away
Submissions ==
  { Submission("A", "mobile_camera", 1), Submission("A", "mobile_camera", 3),
    Submission("B", "mobile_camera", 2), Submission("B", "police_check", 1) }

\* submissions whose report_type is not one of the two known types, or whose
\* latitude is outside [-90, 90]
MalformedSubmissions ==
  { Submission("B", "roadworks", 1), Submission("B", "mobile_camera", 4) }

\* submissions of two more submitters, for the behaviours that need more
\* than two of them: one next to coordinate 2, one far from it
MoreSubmissions ==
  { Submission("C", "mobile_camera", 1), Submission("D", "mobile_camera", 3) }

\* ------------------------------------------------------------------- state
VARIABLES
  clock,       \* datetime.utcnow(), in ticks
  reports,     \* db.reports, in insertion order
  settingsDoc, \* db.settings: NoDoc or the one stored document
  nextId,      \* stands for uuid4(): the next unused identifier
  started,     \* the number of create_report requests received so far
  pc,          \* per request: the await it is suspended at
  req,         \* per request: the CommunityReportCreate payload
  settings,    \* per request: local 'settings'
  now,         \* per request: local 'now'
  existing,    \* per request: local 'existing' (the document as it was read)
  report_obj,  \* per request: local 'report_obj'
  resp,        \* per request: the ReportResponse (or the error) it ended in
  nearby,      \* the get_nearby_reports call: its position, arguments, result
  cameras,     \* db.cameras, in insertion order
  nearbyCams,  \* the get_nearby_cameras call: its position, arguments, result
  upserts,     \* update_settings calls whose replace_one matched no document
               \* and has yet to insert its own
  strayDocs,   \* db.settings: the documents behind the first one
  \* history, read by no action:
  accepted,    \* per (user_id, report_type): 'now' of the latest call that
               \* returned success=true, or -1
  prior,       \* per request: accepted[user_id, report_type] when it started
  merged,      \* per report id: the number of update_one calls made on it
  confirmers,  \* per report id: the user_ids of the submissions that created
               \* it or were merged into it
  completed    \* the settings of the update_settings call that returned last

vars == <<clock, reports, settingsDoc, nextId, started, pc, req, settings, now,
          existing, report_obj, resp, nearby, cameras, nearbyCams, upserts,
          strayDocs, accepted, prior, merged, confirmers, completed>>

hist == <<accepted, prior, merged, confirmers>>
camvars == <<cameras, nearbyCams>>
setvars == <<upserts, strayDocs, completed>>

Keys ==
  { <<r.user_id, r.report_type>> :
      r \in Submissions \cup MalformedSubmissions \cup MoreSubmissions }
KeyOf(report) == <<report.user_id, report.report_type>>
Max(a, b) == IF a >= b THEN a ELSE b

None == [none |-> TRUE]

Init ==
  /\ clock = 0
  /\ reports = <<>>
  /\ settingsDoc = NoDoc
  /\ nextId = 1
  /\ started = 0
  /\ pc = [p \in Procs |-> "idle"]
  /\ req = [p \in Procs |-> None]
  /\ settings = [p \in Procs |-> None]
  /\ now = [p \in Procs |-> 0]
  /\ existing = [p \in Procs |-> None]
  /\ report_obj = [p \in Procs |-> None]
  /\ resp = [p \in Procs |-> None]
  /\ nearby = [pc |-> "idle"]
  /\ accepted = [k \in Keys |-> -1]
  /\ prior = [p \in Procs |-> -1]
  /\ merged = [i \in 1..MaxReports |-> 0]
  /\ confirmers = [i \in 1..MaxReports |-> {}]
  /\ cameras = <<>>
  /\ nearbyCams = [pc |-> "idle"]
  /\ upserts = {}
  /\ strayDocs = <<>>
  /\ completed = None

\* get_settings(): the stored document, or the defaults
get_settings == IF settingsDoc = NoDoc THEN DefaultSettings ELSE settingsDoc

Indexes == 1..Len(reports)

Min(a, b) == IF a <= b THEN a ELSE b

\* ---------------------------------------------------------- create_report
\* The rate limit kept per place: the filter also asks for the prior report
\* to lie within duplicate_radius_meters of the submission
RecentReportMatchNearby(r, report, s, t) ==
  /\ r.user_id = report.user_id
  /\ r.report_type = report.report_type
  /\ r.created_at >= t - minutes(s.rate_limit_minutes)
  /\ WithinMeters(haversine_distance(report.latitude, report.longitude,
                                     r.latitude, r.longitude),
                  s.duplicate_radius_meters)

\* The rate-limit window taken without its first instant: a report made
\* exactly rate_limit_minutes ago no longer counts
RecentReportMatchExclusive(r, report, s, t) ==
  /\ r.user_id = report.user_id
  /\ r.report_type = report.report_type
  /\ r.created_at > t - minutes(s.rate_limit_minutes)

\* The filter of the rate-limit find_one
RecentReportMatch(r, report, s, t) ==
  /\ r.user_id = report.user_id
  /\ r.report_type = report.report_type
  /\ r.created_at >= t - minutes(s.rate_limit_minutes)

wait_time(s, t, recent_report) ==
  s.rate_limit_minutes - IntMinutes(t - recent_report.created_at)

\* The filter of the duplicate-merge find
ExistingMatch(r, report, s, t) ==
  /\ r.report_type = report.report_type
  /\ r.is_active = TRUE
  /\ r.expires_at > t
  /\ r.created_at >= t - minutes(s.duplicate_time_window_minutes)

\* .to_list(n) of the duplicate-merge find keeps at most this many documents
DupScanLimit == 1

\* The lists the find may hand back: at most DupScanLimit of the matching
\* documents; MongoDB promises no order, so any of them may be the ones kept.
ExistingReportSets(report, s, t) ==
  LET cands == { i \in Indexes : ExistingMatch(reports[i], report, s, t) }
  IN  { S \in SUBSET cands :
          Cardinality(S) = Min(DupScanLimit, Cardinality(cands)) }

WithinDuplicateRadius(r, report, s) ==
  WithinMeters(haversine_distance(report.latitude, report.longitude,
                                  r.latitude, r.longitude),
               s.duplicate_radius_meters)

\* The two TTL settings taken for one another
ttl_minutes_swapped(report, s) ==
  IF report.report_type = "mobile_camera"
    THEN s.police_check_ttl_minutes
    ELSE s.mobile_camera_ttl_minutes

\* lines 229-232
ttl_minutes(report, s) ==
  IF report.report_type = "mobile_camera"
    THEN s.mobile_camera_ttl_minutes
    ELSE s.police_check_ttl_minutes

\* The model with a confirmations default of 0: the first report of a cluster
\* is not counted
CommunityReportUncounted(report, id, created, expires) ==
  [id |-> id, latitude |-> report.latitude, longitude |-> report.longitude,
   report_type |-> report.report_type, user_id |-> report.user_id,
   confirmations |-> 0, created_at |-> created, expires_at |-> expires,
   is_active |-> TRUE]

\* CommunityReport(**report.dict(), expires_at=...): id and created_at come
\* from the default factories, evaluated when the object is constructed
CommunityReport(report, id, created, expires) ==
  [id |-> id, latitude |-> report.latitude, longitude |-> report.longitude,
   report_type |-> report.report_type, user_id |-> report.user_id,
   confirmations |-> 1, created_at |-> created, expires_at |-> expires,
   is_active |-> TRUE]

\* A confirmation that also prolongs the report: the update adds a minute to
\* expires_at along with the $inc
IncAndProlong(rs, doc) ==
  [i \in DOMAIN rs |->
     IF rs[i].id = doc.id
       THEN [rs[i] EXCEPT !.confirmations = @ + 1,
                          !.expires_at = @ + TicksPerMinute]
       ELSE rs[i]]

\* A read-modify-write in the handler instead of the store's $inc: the count is
\* set from the document as the request read it
SetConfirmations(rs, doc) ==
  [i \in DOMAIN rs |->
     IF rs[i].id = doc.id
       THEN [rs[i] EXCEPT !.confirmations = doc.confirmations + 1]
       ELSE rs[i]]

\* The confirmation given to every stored report of the type within the
\* radius of the one that was found, not to that one alone
IncAllNear(rs, doc) ==
  [i \in DOMAIN rs |->
     IF /\ rs[i].report_type = doc.report_type
        /\ WithinMeters(haversine_distance(doc.latitude, doc.longitude,
                                           rs[i].latitude, rs[i].longitude),
                        DefaultSettings.duplicate_radius_meters)
       THEN [rs[i] EXCEPT !.confirmations = @ + 1]
       ELSE rs[i]]

\* update_one({'id': existing['id']}, {'$inc': {'confirmations': 1}}), done by
\* the store on the first document with that id; doc is the request's
\* 'existing'.
IncConfirmations(rs, doc) ==
  LET hit == { i \in DOMAIN rs : rs[i].id = doc.id }
      first == IF hit = {} THEN 0 ELSE CHOOSE i \in hit : \A j \in hit : i <= j
  IN  [i \in DOMAIN rs |->
         IF i = first THEN [rs[i] EXCEPT !.confirmations = @ + 1] ELSE rs[i]]

ReportResponse(kind, success, n, id) ==
  [kind |-> kind, success |-> success, n |-> n, report_id |-> id]

\* The handler returns (or raises): its locals are gone; the exchange, the
\* payload and the response to it, stays until the slot takes a new request
Return(p) ==
  /\ pc' = [pc EXCEPT ![p] = "done"]
  /\ req' = req
  /\ settings' = [settings EXCEPT ![p] = None]
  /\ now' = [now EXCEPT ![p] = 0]
  /\ prior' = [prior EXCEPT ![p] = -1]

\* a call that returned success=true is remembered under its submitter and type
Accept(p) ==
  accepted' = [accepted EXCEPT ![KeyOf(req[p])] = Max(@, now[p])]

\* lines 186-187: settings = await get_settings(); now = datetime.utcnow().
\* Requests are interchangeable, so a new one takes the lowest free slot.
StartReport(p, report) ==
  /\ pc[p] \in {"idle", "done"}
  /\ \A q \in Procs : q < p => pc[q] \notin {"idle", "done"}
  /\ started < MaxRequests
  /\ started' = started + 1
  /\ req' = [req EXCEPT ![p] = report]
  /\ settings' = [settings EXCEPT ![p] = get_settings]
  /\ now' = [now EXCEPT ![p] = clock]
  /\ resp' = [resp EXCEPT ![p] = None]
  /\ pc' = [pc EXCEPT ![p] = "rate"]
  /\ prior' = [prior EXCEPT ![p] = accepted[KeyOf(report)]]
  /\ UNCHANGED <<clock, reports, settingsDoc, nextId, existing, report_obj,
                 nearby, accepted, merged, confirmers>>
  /\ UNCHANGED <<camvars, setvars>>

\* The documents the duplicate-merge pass of request p would accept
Mergeable(p) ==
  { i \in Indexes : /\ ExistingMatch(reports[i], req[p], settings[p], now[p])
                    /\ WithinDuplicateRadius(reports[i], req[p], settings[p]) }

\* The two checks in the other order: a rejected submission has already
\* confirmed a nearby report
CheckRateLimitAfterMerge(p) ==
  /\ pc[p] = "rate"
  /\ LET recent == { i \in Indexes :
                       RecentReportMatch(reports[i], req[p], settings[p], now[p]) }
     IN  IF recent # {}
           THEN \E i \in recent :
                  /\ resp' = [resp EXCEPT ![p] =
                       ReportResponse("rate_limited", FALSE,
                                      wait_time(settings[p], now[p], reports[i]), 0)]
                  /\ Return(p)
                  /\ IF Mergeable(p) # {}
                       THEN \E j \in Mergeable(p) :
                              reports' = IncConfirmations(reports, reports[j])
                       ELSE reports' = reports
           ELSE /\ pc' = [pc EXCEPT ![p] = "dup"]
                /\ UNCHANGED <<resp, req, settings, now, prior, reports>>
  /\ UNCHANGED <<clock, settingsDoc, nextId, started, existing,
                 report_obj, nearby, accepted, merged, confirmers>>
  /\ UNCHANGED <<camvars, setvars>>

\* lines 190-201: the rate-limit find_one and the rejection
CheckRateLimit(p) ==
  /\ pc[p] = "rate"
  /\ LET recent == { i \in Indexes :
                       RecentReportMatch(reports[i], req[p], settings[p], now[p]) }
     IN  IF recent # {}
           THEN \E i \in recent :
                  /\ resp' = [resp EXCEPT ![p] =
                       ReportResponse("rate_limited", FALSE,
                                      wait_time(settings[p], now[p], reports[i]), 0)]
                  /\ Return(p)
           ELSE /\ pc' = [pc EXCEPT ![p] = "dup"]
                /\ UNCHANGED <<resp, req, settings, now, prior>>
  /\ UNCHANGED <<clock, reports, settingsDoc, nextId, started, existing,
                 report_obj, nearby, accepted, merged, confirmers>>
  /\ UNCHANGED <<camvars, setvars>>

\* lines 204-238: the duplicate-merge find, the loop over its result and, when
\* the loop finds nothing, the construction of report_obj
FindExisting(p) ==
  /\ pc[p] = "dup"
  /\ \E S \in ExistingReportSets(req[p], settings[p], now[p]) :
       LET near == { i \in S : WithinDuplicateRadius(reports[i], req[p], settings[p]) }
       IN  IF near # {}
             THEN \E i \in near :
                    /\ existing' = [existing EXCEPT ![p] = reports[i]]
                    /\ pc' = [pc EXCEPT ![p] = "inc"]
                    /\ UNCHANGED <<report_obj, nextId>>
             ELSE /\ nextId <= MaxReports
                  /\ report_obj' = [report_obj EXCEPT ![p] =
                       CommunityReport(req[p], nextId, clock,
                         now[p] + minutes(ttl_minutes(req[p], settings[p])))]
                  /\ nextId' = nextId + 1
                  /\ pc' = [pc EXCEPT ![p] = "insert"]
                  /\ UNCHANGED existing
  /\ UNCHANGED <<clock, reports, settingsDoc, started, req, settings, now,
                 resp, nearby, hist>>
  /\ UNCHANGED <<camvars, setvars>>

\* lines 218-226: the update_one and the "Confirmed!" response
MergeReport(p) ==
  /\ pc[p] = "inc"
  /\ reports' = IncConfirmations(reports, existing[p])
  /\ merged' = [merged EXCEPT ![existing[p].id] = @ + 1]
  /\ confirmers' = [confirmers EXCEPT ![existing[p].id] = @ \cup {req[p].user_id}]
  /\ Accept(p)
  /\ resp' = [resp EXCEPT ![p] =
       ReportResponse("merged", TRUE, existing[p].confirmations + 1, existing[p].id)]
  /\ Return(p)
  /\ existing' = [existing EXCEPT ![p] = None]
  /\ report_obj' = [report_obj EXCEPT ![p] = None]
  /\ UNCHANGED <<clock, settingsDoc, nextId, started, nearby>>
  /\ UNCHANGED <<camvars, setvars>>

\* The response goes out without the insert having been made (the insert is
\* not awaited, and is lost)
RespondWithoutInsert(p) ==
  /\ pc[p] = "insert"
  /\ reports' = reports
  /\ Accept(p)
  /\ merged' = merged
  /\ confirmers' = confirmers
  /\ resp' = [resp EXCEPT ![p] =
       ReportResponse("created", TRUE, 0, report_obj[p].id)]
  /\ Return(p)
  /\ existing' = [existing EXCEPT ![p] = None]
  /\ report_obj' = [report_obj EXCEPT ![p] = None]
  /\ UNCHANGED <<clock, settingsDoc, nextId, started, nearby>>
  /\ UNCHANGED <<camvars, setvars>>

\* lines 239-245: the insert_one and the "Reported" response
InsertReport(p) ==
  /\ pc[p] = "insert"
  /\ reports' = Append(reports, report_obj[p])
  /\ Accept(p)
  /\ merged' = merged
  /\ confirmers' = [confirmers EXCEPT ![report_obj[p].id] = {req[p].user_id}]
  /\ resp' = [resp EXCEPT ![p] =
       ReportResponse("created", TRUE, 0, report_obj[p].id)]
  /\ Return(p)
  /\ existing' = [existing EXCEPT ![p] = None]
  /\ report_obj' = [report_obj EXCEPT ![p] = None]
  /\ UNCHANGED <<clock, settingsDoc, nextId, started, nearby>>
  /\ UNCHANGED <<camvars, setvars>>

\* What the caller gets when the handler raises: no ReportResponse
ErrorResponse(at) ==
  [kind |-> "error", success |-> FALSE, n |-> 0, report_id |-> 0, raised_at |-> at]

\* An awaited store call of create_report raises (store unreachable, timeout,
\* write failure).  Nothing in lines 184-245 catches it: the handler ends
\* there.  A write that raises may or may not have been applied by the store.
PersistenceError(p, applied) ==
  /\ pc[p] \in {"rate", "dup", "inc", "insert"}
  /\ applied => pc[p] \in {"inc", "insert"}
  /\ reports' = IF ~applied THEN reports
                ELSE IF pc[p] = "inc" THEN IncConfirmations(reports, existing[p])
                ELSE Append(reports, report_obj[p])
  /\ merged' = IF applied /\ pc[p] = "inc"
                 THEN [merged EXCEPT ![existing[p].id] = @ + 1] ELSE merged
  /\ confirmers' = IF ~applied THEN confirmers
                   ELSE IF pc[p] = "inc"
                     THEN [confirmers EXCEPT ![existing[p].id] = @ \cup {req[p].user_id}]
                     ELSE [confirmers EXCEPT ![report_obj[p].id] = {req[p].user_id}]
  /\ resp' = [resp EXCEPT ![p] = ErrorResponse(pc[p])]
  /\ Return(p)
  /\ existing' = [existing EXCEPT ![p] = None]
  /\ report_obj' = [report_obj EXCEPT ![p] = None]
  /\ UNCHANGED <<clock, settingsDoc, nextId, started, nearby, accepted>>
  /\ UNCHANGED <<camvars, setvars>>

\* lines 299-303: replace_one({}, settings.dict(), upsert=True)
update_settings(s) ==
  /\ settingsDoc' = s
  /\ UNCHANGED <<clock, reports, nextId, started, pc, req, settings, now,
                 existing, report_obj, resp, nearby, hist>>
  /\ completed' = s
  /\ UNCHANGED <<camvars, upserts, strayDocs>>

\* replace_one({}, ..., upsert=True) on a collection in which the filter
\* matches nothing is a query followed by an insert; MongoDB does not make
\* the pair atomic against another upsert, and db.settings has no unique
\* index that would turn the second insert into an update.  Here the query
\* of the call with body s has matched nothing and its insert is to come.
UpsertMiss(s) ==
  /\ settingsDoc = NoDoc
  /\ s \notin upserts
  /\ upserts' = upserts \cup {s}
  /\ UNCHANGED <<clock, reports, settingsDoc, nextId, started, pc, req,
                 settings, now, existing, report_obj, resp, nearby, hist,
                 camvars, strayDocs, completed>>

\* The insert of such a call, after which the handler returns (line 303).
\* find_one({}) and replace_one({}) go on reaching the document that was
\* inserted first; one inserted behind it stays in the collection.
UpsertInsert(s) ==
  /\ s \in upserts
  /\ upserts' = upserts \ {s}
  /\ IF settingsDoc = NoDoc
       THEN settingsDoc' = s /\ strayDocs' = strayDocs
       ELSE settingsDoc' = settingsDoc /\ strayDocs' = Append(strayDocs, s)
  /\ completed' = s
  /\ UNCHANGED <<clock, reports, nextId, started, pc, req, settings, now,
                 existing, report_obj, resp, nearby, hist, camvars>>

\* ----------------------------------------------------- get_nearby_reports
\* round(x) of a non-negative n/d: to the nearest integer, halves to the even
Round(n, d) ==
  LET q == n \div d
      r == n % d
  IN  IF 2 * r < d THEN q
      ELSE IF 2 * r > d THEN q + 1
      ELSE IF q % 2 = 0 THEN q ELSE q + 1

\* The filter of the find with the expiry bound included (expires_at >= now)
NearbyReportMatchInclusive(r, bbox, t) ==
  /\ r.latitude >= bbox.min_lat /\ r.latitude <= bbox.max_lat
  /\ r.longitude >= bbox.min_lon /\ r.longitude <= bbox.max_lon
  /\ r.is_active = TRUE
  /\ r.expires_at >= t

\* The filter of the find of lines 257-262
NearbyReportMatch(r, bbox, t) ==
  /\ r.latitude >= bbox.min_lat /\ r.latitude <= bbox.max_lat
  /\ r.longitude >= bbox.min_lon /\ r.longitude <= bbox.max_lon
  /\ r.is_active = TRUE
  /\ r.expires_at > t

\* .to_list(n) of that find keeps at most this many documents
NearbyReportsLimit == 2

\* The lists the find may hand back, as sets of store positions
NearbyReportSets(bbox, t) ==
  LET cands == { i \in Indexes : NearbyReportMatch(reports[i], bbox, t) }
  IN  { S \in SUBSET cands :
          Cardinality(S) = Min(NearbyReportsLimit, Cardinality(cands)) }

\* lines 266-273: the document with its distance and its remaining minutes
AnnotatedReport(r, lat, lon, t) ==
  [id |-> r.id, latitude |-> r.latitude, longitude |-> r.longitude,
   report_type |-> r.report_type, user_id |-> r.user_id,
   confirmations |-> r.confirmations, created_at |-> r.created_at,
   expires_at |-> r.expires_at, is_active |-> r.is_active,
   distance_meters |-> Round(haversine_distance(lat, lon, r.latitude, r.longitude), 10),
   expires_in_minutes |-> Round(r.expires_at - t, TicksPerMinute)]

\* The result left in the order of the find: no sort
Unsorted(S) ==
  { f \in [1..Cardinality(S) -> S] : \A a, b \in DOMAIN f : a # b => f[a] # f[b] }

\* result.sort(key=distance_meters): the orders a stable sort can leave, the
\* order of the find being any
SortedByDistance(S) ==
  { f \in [1..Cardinality(S) -> S] :
      /\ \A a, b \in DOMAIN f : a # b => f[a] # f[b]
      /\ \A a, b \in DOMAIN f :
           a < b => f[a].distance_meters <= f[b].distance_meters }

\* the arguments of the queries of this model: around coordinates 1 and 3,
\* with radius_km 0.1 and 5.0 (kept in meters)
NearbyCenters == { 1, 3 }
NearbyRadii == { 100, 5000 }

\* line 254-255: now = datetime.utcnow(); bbox = get_bounding_box(...)
StartNearbyReports(c, radius_m) ==
  /\ nearby.pc \in {"idle", "done"}
  /\ nearby' = [pc |-> "find", lat |-> Lat[c], lon |-> Lon[c],
                radius_m |-> radius_m, now |-> clock]
  /\ UNCHANGED <<clock, reports, settingsDoc, nextId, started, pc, req,
                 settings, now, existing, report_obj, resp, hist>>
  /\ UNCHANGED <<camvars, setvars>>

\* lines 257-276: the find, the exact-distance filter, the sort.  Also the
\* 'reports' of get_all_nearby, which calls this handler (line 286).
FindNearbyReports ==
  /\ nearby.pc = "find"
  /\ LET bbox == get_bounding_box(nearby.lat, nearby.lon, nearby.radius_m)
     IN  \E S \in NearbyReportSets(bbox, nearby.now) :
           LET result == { AnnotatedReport(reports[i], nearby.lat, nearby.lon, nearby.now) :
                             i \in { j \in S :
                                WithinMeters(
                                  haversine_distance(nearby.lat, nearby.lon,
                                    reports[j].latitude, reports[j].longitude),
                                  nearby.radius_m) } }
           IN  \E sorted \in SortedByDistance(result) :
                 nearby' = [pc |-> "done", lat |-> nearby.lat, lon |-> nearby.lon,
                            radius_m |-> nearby.radius_m, now |-> nearby.now,
                            result |-> sorted]
  /\ UNCHANGED <<clock, reports, settingsDoc, nextId, started, pc, req,
                 settings, now, existing, report_obj, resp, hist>>
  /\ UNCHANGED <<camvars, setvars>>

\* ----------------------------------------------------- get_nearby_cameras
\* SpeedCamera(**camera.dict()): the fields the proximity query reads, the
\* identifier from the default factory, is_active from its default
SpeedCamera(camera, id) ==
  [id |-> id, latitude |-> camera.latitude, longitude |-> camera.longitude,
   camera_type |-> camera.camera_type, is_active |-> TRUE]

\* SpeedCameraCreate payloads: fixed cameras at the sample coordinates 1..3
SpeedCameraCreate(p) ==
  [latitude |-> Lat[p], longitude |-> Lon[p], camera_type |-> "fixed"]

CameraPoints == { 1, 2, 3 }

\* lines 168-172: POST /cameras
create_camera(camera) ==
  /\ Len(cameras) < MaxCameras
  /\ cameras' = Append(cameras, SpeedCamera(camera, Len(cameras) + 1))
  /\ UNCHANGED <<clock, reports, settingsDoc, nextId, started, pc, req,
                 settings, now, existing, report_obj, resp, nearby, hist,
                 nearbyCams, setvars>>

\* The filter of the find of lines 148-152
NearbyCameraMatch(cam, bbox) ==
  /\ cam.latitude >= bbox.min_lat /\ cam.latitude <= bbox.max_lat
  /\ cam.longitude >= bbox.min_lon /\ cam.longitude <= bbox.max_lon
  /\ cam.is_active = TRUE

\* .to_list(n) of that find keeps at most this many documents
NearbyCamerasLimit == 2

\* The lists the find may hand back, as sets of store positions
NearbyCameraSets(bbox) ==
  LET cands == { i \in 1..Len(cameras) : NearbyCameraMatch(cameras[i], bbox) }
  IN  { S \in SUBSET cands :
          Cardinality(S) = Min(NearbyCamerasLimit, Cardinality(cands)) }

\* lines 157-161: the document with its distance
AnnotatedCamera(cam, lat, lon) ==
  [id |-> cam.id, latitude |-> cam.latitude, longitude |-> cam.longitude,
   camera_type |-> cam.camera_type, is_active |-> cam.is_active,
   distance_meters |-> Round(haversine_distance(lat, lon, cam.latitude, cam.longitude), 10)]

\* lines 146-165: the find, the exact-distance filter, the sort; the handler
\* has one await.  Also the 'cameras' of get_all_nearby, which calls this
\* handler (line 285).
get_nearby_cameras(c, radius_m) ==
  /\ LET bbox == get_bounding_box(Lat[c], Lon[c], radius_m)
     IN  \E S \in NearbyCameraSets(bbox) :
           LET result == { AnnotatedCamera(cameras[i], Lat[c], Lon[c]) :
                             i \in { j \in S :
                                WithinMeters(
                                  haversine_distance(Lat[c], Lon[c],
                                    cameras[j].latitude, cameras[j].longitude),
                                  radius_m) } }
           IN  \E sorted \in SortedByDistance(result) :
                 nearbyCams' = [pc |-> "done", lat |-> Lat[c], lon |-> Lon[c],
                                radius_m |-> radius_m, result |-> sorted]
  /\ UNCHANGED <<clock, reports, settingsDoc, nextId, started, pc, req,
                 settings, now, existing, report_obj, resp, nearby, hist,
                 cameras, setvars>>

\* The wall clock moves on
Tick ==
  /\ clock < MaxTime
  /\ clock' = clock + 1
  /\ UNCHANGED <<reports, settingsDoc, nextId, started, pc, req, settings,
                 now, existing, report_obj, resp, nearby, hist>>
  /\ UNCHANGED <<camvars, setvars>>

\* The wall clock moves on beyond MaxTime, as far as MaxWaitTime
LateTick ==
  /\ clock >= MaxTime
  /\ clock < MaxWaitTime
  /\ clock' = clock + 1
  /\ UNCHANGED <<reports, settingsDoc, nextId, started, pc, req, settings,
                 now, existing, report_obj, resp, nearby, hist>>
  /\ UNCHANGED <<camvars, setvars>>

\* the steps of the requests in flight
CreateReportSteps ==
  \/ \E p \in Procs : CheckRateLimit(p)
  \/ \E p \in Procs : FindExisting(p)
  \/ \E p \in Procs : MergeReport(p)
  \/ \E p \in Procs : InsertReport(p)

\* POST /reports with a payload of the set S
Requests(S) == \E p \in Procs, report \in S : StartReport(p, report)

Next ==
  \/ Requests(Submissions)
  \/ CreateReportSteps
  \/ \E s \in SettingsChoices : update_settings(s)
  \/ Tick

Spec == Init /\ [][Next]_vars

\* The same, with payloads that a validation of the report type and of the
\* coordinate would refuse
NextUnvalidated ==
  \/ Requests({ Submission("A", "mobile_camera", 1) } \cup MalformedSubmissions)
  \/ CreateReportSteps
  \/ \E s \in SettingsChoices : update_settings(s)
  \/ Tick

SpecUnvalidated == Init /\ [][NextUnvalidated]_vars

\* A burst of requests: every request arrives and is handled while the wall
\* clock stands at one instant; the settings can still change under it
NextBurst ==
  \/ Requests(Submissions)
  \/ CreateReportSteps
  \/ \E s \in SettingsChoices : update_settings(s)

SpecBurst == Init /\ [][NextBurst]_vars

\* A burst of requests against a store whose calls can fail
NextFail ==
  \/ Requests({ Submission("A", "mobile_camera", 1), Submission("B", "mobile_camera", 2) })
  \/ CreateReportSteps
  \/ \E p \in Procs, applied \in BOOLEAN : PersistenceError(p, applied)
  \/ \E s \in SettingsChoices : update_settings(s)

SpecFail == Init /\ [][NextFail]_vars

\* No create_report call is between its first and its last step
NoneInFlight == \A q \in Procs : pc[q] \in {"idle", "done"}

\* Submissions that arrive one after the other, together with proximity
\* queries for reports that run at any point between their steps
NextQuery ==
  \/ /\ started < MaxQueriedRequests
     /\ NoneInFlight
     /\ Requests({ Submission("A", "mobile_camera", 1),
                   Submission("B", "mobile_camera", 2),
                   Submission("B", "police_check", 1) })
  \/ CreateReportSteps
  \/ \E c \in NearbyCenters, radius_m \in NearbyRadii : StartNearbyReports(c, radius_m)
  \/ FindNearbyReports
  \/ \E s \in SettingsChoices : update_settings(s)
  \/ Tick

SpecQuery == Init /\ [][NextQuery]_vars

\* Resubmissions of one submitter over a longer stretch of time: minutes and
\* fractions of a minute go by between their report and their next submission
NextWait ==
  \/ /\ started < MaxQueriedRequests
     /\ Requests({ Submission("A", "mobile_camera", 1) })
  \/ CreateReportSteps
  \/ \E s \in SettingsChoices : update_settings(s)
  \/ Tick
  \/ LateTick

SpecWait == Init /\ [][NextWait]_vars

\* the settings documents posted in the behaviours on the settings store
SettingsPosts == SettingsChoices \cup { AppSettings(75, 52, 200, 15, 1) }

\* Administrators posting settings at the same time as one another and as the
\* submissions
NextSettings ==
  \/ /\ started < MaxQueriedRequests
     /\ Requests({ Submission("A", "mobile_camera", 1), Submission("B", "mobile_camera", 2) })
  \/ CreateReportSteps
  \/ \E s \in SettingsPosts : update_settings(s)
  \/ \E s \in SettingsPosts : UpsertMiss(s)
  \/ \E s \in SettingsPosts : UpsertInsert(s)
  \/ Tick

SpecSettings == Init /\ [][NextSettings]_vars

\* db.cameras and db.reports share no handler and no document: get_all_nearby
\* runs the two proximity queries one after the other and pairs their
\* results.  The behaviours of SpecNearby work on one collection at a time.
OnlyReports == cameras = <<>> /\ nearbyCams.pc = "idle"
OnlyCameras ==
  /\ reports = <<>> /\ started = 0 /\ nearby.pc = "idle"
  /\ clock = 0 /\ settingsDoc = NoDoc

NextCameras ==
  \/ \E p \in CameraPoints : create_camera(SpeedCameraCreate(p))
  \/ \E c \in NearbyCenters, radius_m \in NearbyRadii : get_nearby_cameras(c, radius_m)

NextNearby ==
  \/ OnlyReports /\ NextQuery
  \/ OnlyCameras /\ NextCameras

SpecNearby == Init /\ [][NextNearby]_vars

\* Submissions of three submitters that are handled one at a time, minutes
\* apart or not; the settings are posted before the first of them, if at all,
\* and stay as they are from then on
NextSerial ==
  \/ /\ NoneInFlight
     /\ Requests(MoreSubmissions \cup { Submission("B", "mobile_camera", 2) })
  \/ CreateReportSteps
  \/ started = 0 /\ \E s \in SettingsChoices : update_settings(s)
  \/ Tick
  \/ LateTick

SpecSerial == Init /\ [][NextSerial]_vars

\* The arguments and the cameras of the behaviours on the bounding box: around
\* coordinates 5 and 7, with radius_km 5.0 and 16.0 (kept in meters), cameras
\* at the coordinates 5..8
BoxPoints == { 5, 6, 7, 8 }
BoxCenters == { 5, 7 }
BoxRadii == { 5000, 16000 }

\* Cameras near the 180 degree meridian and near the pole, and proximity
\* queries around them
NextBox ==
  \/ \E p \in BoxPoints : create_camera(SpeedCameraCreate(p))
  \/ \E c \in BoxCenters, radius_m \in BoxRadii : get_nearby_cameras(c, radius_m)

SpecBox == Init /\ [][NextBox]_vars

\* The store as one accepted submission leaves it: D's mobile_camera report
\* at coordinate 3, made at tick 0 under the default settings, its request
\* over.  Everything else as in Init.
InitAfterOne ==
  /\ clock = 0
  /\ reports = << CommunityReport(Submission("D", "mobile_camera", 3), 1, 0,
                     minutes(DefaultSettings.mobile_camera_ttl_minutes)) >>
  /\ settingsDoc = NoDoc
  /\ nextId = 2
  /\ started = 0
  /\ pc = [p \in Procs |-> "idle"]
  /\ req = [p \in Procs |-> None]
  /\ settings = [p \in Procs |-> None]
  /\ now = [p \in Procs |-> 0]
  /\ existing = [p \in Procs |-> None]
  /\ report_obj = [p \in Procs |-> None]
  /\ resp = [p \in Procs |-> None]
  /\ nearby = [pc |-> "idle"]
  /\ accepted = [k \in Keys |-> IF k = <<"D", "mobile_camera">> THEN 0 ELSE -1]
  /\ prior = [p \in Procs |-> -1]
  /\ merged = [i \in 1..MaxReports |-> 0]
  /\ confirmers = [i \in 1..MaxReports |-> IF i = 1 THEN {"D"} ELSE {}]
  /\ cameras = <<>>
  /\ nearbyCams = [pc |-> "idle"]
  /\ upserts = {}
  /\ strayDocs = <<>>
  /\ completed = None

\* A burst of submissions next to one another, from three submitters, into a
\* store that already holds a report of their type far away
NextRace ==
  \/ Requests({ Submission("A", "mobile_camera", 1),
                Submission("B", "mobile_camera", 2),
                Submission("C", "mobile_camera", 1) })
  \/ CreateReportSteps
  \/ \E s \in SettingsChoices : update_settings(s)

SpecRace == InitAfterOne /\ [][NextRace]_vars

\* ------------------------------------------------------------------ claims
KnownTypes == { "mobile_camera", "police_check" }
AllSettings == { DefaultSettings } \cup SettingsChoices

Returned(p) == pc[p] = "done"
Returns(p) == pc[p] # "done" /\ pc'[p] = "done"

\* A stored document that every request of the model would merge into, were
\* it to submit 'report' now: same type, active, not expired, within the
\* smallest window and the smallest radius of the settings in use
SurelyMergeable(r, report) ==
  /\ r.report_type = report.report_type
  /\ r.is_active
  /\ r.expires_at > clock
  /\ \A s \in AllSettings :
        /\ r.created_at >= clock - minutes(s.duplicate_time_window_minutes)
        /\ WithinDuplicateRadius(r, report, s)

\* C1: a submitter whose earlier submission of a type was accepted, and who
\* submits that type again within rate_limit_minutes of it, is rejected: no
\* such second request gets past the rate-limit check.
C1_SecondSubmissionRejected ==
  \A p \in Procs :
    (pc[p] \in {"dup", "inc", "insert"} /\ prior[p] >= 0)
      => now[p] - prior[p] > minutes(settings[p].rate_limit_minutes)

\* C2: a request that reaches the duplicate-merge pass while the store holds
\* a document it can merge into goes on to merge into such a document, and
\* the merge answers success with that document's id, adds one to the
\* confirmations of exactly that document and inserts nothing.
C2_MergesIntoExisting ==
  [][\A p \in Procs :
       /\ (pc[p] = "dup" /\ pc'[p] # "dup" /\ Mergeable(p) # {})
            => /\ pc'[p] = "inc"
               /\ \E i \in Mergeable(p) : existing'[p].id = reports[i].id
       /\ (pc[p] = "inc" /\ pc'[p] = "done")
            => /\ resp'[p].success
               /\ resp'[p].report_id = existing[p].id
               /\ Len(reports') = Len(reports)
               /\ \E i \in Indexes :
                    /\ reports[i].id = existing[p].id
                    /\ reports'[i].confirmations = reports[i].confirmations + 1
                    /\ \A j \in Indexes \ {i} : reports'[j] = reports[j]
    ]_vars

\* C3: no report returned by get_nearby_reports has expires_at <= the 'now' of
\* the query, whatever the center and the radius; and no step removes a
\* stored report, deactivates it or moves its expiry.
C3_ExpiredNeverReturned ==
  /\ [](nearby.pc = "done"
         => \A k \in DOMAIN nearby.result : nearby.result[k].expires_at > nearby.now)
  /\ [][/\ Len(reports') >= Len(reports)
        /\ \A i \in Indexes :
             /\ reports'[i].id = reports[i].id
             /\ reports'[i].is_active = reports[i].is_active
             /\ reports'[i].expires_at = reports[i].expires_at
             /\ reports'[i].created_at = reports[i].created_at
             /\ reports'[i].latitude = reports[i].latitude
             /\ reports'[i].longitude = reports[i].longitude
     ]_vars

\* A query around a stored report that had expired by the query's 'now' has
\* returned: the expired report is within the radius, was in the store before
\* a report that the query did return, and is still stored
C3_QueriedPastExpiry ==
  /\ nearby.pc = "done"
  /\ \E i, j \in Indexes :
       /\ i < j
       /\ reports[i].expires_at <= nearby.now
       /\ reports[i].is_active
       /\ WithinMeters(haversine_distance(nearby.lat, nearby.lon,
                          reports[i].latitude, reports[i].longitude),
                       nearby.radius_m)
       /\ \E k \in DOMAIN nearby.result : nearby.result[k].id = reports[j].id

\* C4: every stored report has expires_at = created_at + TTL(report_type),
\* the TTL being that of some settings the store has held.
C4_ExpiresIsCreatedPlusTtl ==
  \A i \in Indexes :
    \E s \in AllSettings :
      reports[i].expires_at =
        reports[i].created_at + minutes(ttl_minutes(reports[i], s))

\* C5: the N of "Confirmed! N users have reported this." is the stored
\* confirmations of the merged report right after this request's increment.
C5_MessageCountIsStoredCount ==
  [][\A p \in Procs :
       (pc[p] = "inc" /\ pc'[p] = "done")
         => \E i \in 1..Len(reports') :
              /\ reports'[i].id = resp'[p].report_id
              /\ resp'[p].n = reports'[i].confirmations
    ]_vars

\* C6: no confirmation is lost: a report's stored confirmations is 1 plus the
\* number of merges made into it, however the merging requests interleave.
C6_NoLostConfirmation ==
  \A i \in Indexes :
    reports[i].confirmations = 1 + merged[reports[i].id]

\* Two merges into one report have raced: a request was answered with a count
\* below the one the store holds
C6_RacedMerges ==
  \E p \in Procs :
    /\ Returned(p)
    /\ resp[p].kind = "merged"
    /\ \E i \in Indexes : /\ reports[i].id = resp[p].report_id
                          /\ merged[reports[i].id] >= 2
                          /\ reports[i].confirmations > resp[p].n

\* C7: the wait time N of every rate-limited rejection satisfies
\* 1 <= N <= rate_limit_minutes.
C7_WaitTimeInRange ==
  [][\A p \in Procs :
       (Returns(p) /\ resp'[p].kind = "rate_limited")
         => /\ 1 <= resp'[p].n
            /\ resp'[p].n <= settings[p].rate_limit_minutes
    ]_vars

\* C8: a call that ends rate-limited has written nothing: its only steps are
\* the reads of the settings and of the rate-limit lookup, and neither
\* changes any report, whatever lies near the submission.
C8_RateLimitedWritesNothing ==
  [][\A p \in Procs :
       /\ (Returns(p) /\ resp'[p].kind = "rate_limited")
            => (pc[p] = "rate" /\ reports' = reports)
       /\ (pc[p] # "rate" /\ pc'[p] = "rate") => reports' = reports
    ]_vars

\* A request was rejected as rate-limited while a report of another
\* submitter, which it would have merged into, lay within the radius: that
\* report was inserted before every report that can have caused the rejection
C8_RejectedNextToMergeable ==
  \E p \in Procs :
    /\ Returned(p)
    /\ resp[p].kind = "rate_limited"
    /\ \E i \in Indexes :
         /\ reports[i].user_id # req[p].user_id
         /\ SurelyMergeable(reports[i], req[p])
         /\ reports[i].confirmations = 1
         /\ \A j \in Indexes :
              (reports[j].user_id = req[p].user_id
                 /\ reports[j].report_type = req[p].report_type) => i < j

\* C9: the insert comes before the response: a request whose insert raises
\* ends in an error, is not started again, and no success response names a
\* report id that the store does not hold.
C9_InsertBeforeResponse ==
  /\ [](\A p \in Procs :
          (Returned(p) /\ resp[p].success)
            => \E i \in Indexes : reports[i].id = resp[p].report_id)
  /\ [][\A p \in Procs :
          (pc[p] = "insert" /\ pc'[p] # "insert")
            => /\ pc'[p] = "done"
               /\ resp'[p].kind \in {"created", "error"}
               /\ resp'[p].kind = "created"
                    => /\ Len(reports') = Len(reports) + 1
                       /\ reports'[Len(reports')].id = resp'[p].report_id
               /\ resp'[p].kind = "error" => ~resp'[p].success
     ]_vars

\* An insert has raised without being applied: the request ended in an error
\* and the identifier it had drawn is in no stored report
C9_InsertFailed ==
  \E p \in Procs :
    /\ Returned(p)
    /\ resp[p].kind = "error"
    /\ resp[p].raised_at = "insert"
    /\ Len(reports) < nextId - 1
    /\ \A q \in Procs : pc[q] # "insert"

\* C10: a submission with an unknown report_type or an out-of-range
\* coordinate is refused: it is never answered with success and no stored
\* report has such a type or coordinate.
C10_MalformedRejected ==
  /\ \A p \in Procs :
       (Returned(p) /\ req[p] \in MalformedSubmissions) => ~resp[p].success
  /\ \A i \in Indexes :
       /\ reports[i].report_type \in KnownTypes
       /\ reports[i].latitude >= -90000000 /\ reports[i].latitude <= 90000000
       /\ reports[i].longitude >= -180000000 /\ reports[i].longitude <= 180000000

\* C11: every stored report has confirmations >= 1, and no step lowers a
\* report's confirmations, removes a report or changes any other field of a
\* stored report.
C11_ConfirmationsOnlyGrow ==
  /\ [](\A i \in Indexes : reports[i].confirmations >= 1)
  /\ [][/\ Len(reports') >= Len(reports)
        /\ \A i \in Indexes :
             /\ reports'[i].confirmations >= reports[i].confirmations
             /\ [reports'[i] EXCEPT !.confirmations = 0]
                  = [reports[i] EXCEPT !.confirmations = 0]
     ]_vars

\* A report has been confirmed and another report stands behind it in the
\* store
C11_ConfirmedAndFollowed ==
  \E i, j \in Indexes :
    /\ i < j
    /\ reports[i].confirmations >= 2
    /\ reports[j].confirmations = 1

\* exact distance, in decimetres, from the center of a query to an entity
DistanceFrom(q, e) == haversine_distance(q.lat, q.lon, e.latitude, e.longitude)

\* C12: each proximity query returns every entity that matches it: every
\* active camera, and every active report with expires_at > now, whose
\* distance to the center is <= radius, however many are stored.
C12_EveryMatchReturned ==
  [][/\ (nearby.pc = "find" /\ nearby'.pc = "done")
          => \A i \in Indexes :
               ( /\ reports[i].is_active
                 /\ reports[i].expires_at > nearby.now
                 /\ DistanceFrom(nearby, reports[i]) <= nearby.radius_m * 10 )
               => \E k \in DOMAIN nearby'.result :
                    nearby'.result[k].id = reports[i].id
     /\ (nearbyCams' # nearbyCams)
          => \A i \in 1..Len(cameras) :
               ( /\ cameras[i].is_active
                 /\ DistanceFrom(nearbyCams', cameras[i]) <= nearbyCams'.radius_m * 10 )
               => \E k \in DOMAIN nearbyCams'.result :
                    nearbyCams'.result[k].id = cameras[i].id
    ]_vars

\* C13: every entity a proximity query returned is a stored one, active, at
\* most radius from the center and, for a report, not expired at the query's
\* 'now'.
C13_ReturnedWithinRadius ==
  /\ nearby.pc = "done"
       => \A k \in DOMAIN nearby.result :
            LET e == nearby.result[k]
            IN  /\ DistanceFrom(nearby, e) <= nearby.radius_m * 10
                /\ e.is_active
                /\ e.expires_at > nearby.now
                /\ \E i \in Indexes : /\ reports[i].id = e.id
                                      /\ reports[i].latitude = e.latitude
                                      /\ reports[i].longitude = e.longitude
  /\ nearbyCams.pc = "done"
       => \A k \in DOMAIN nearbyCams.result :
            LET e == nearbyCams.result[k]
            IN  /\ DistanceFrom(nearbyCams, e) <= nearbyCams.radius_m * 10
                /\ e.is_active
                /\ \E i \in 1..Len(cameras) : /\ cameras[i].id = e.id
                                              /\ cameras[i].latitude = e.latitude
                                              /\ cameras[i].longitude = e.longitude

\* A query for reports has returned one report and left out another that is
\* active, not expired, inside the bounding box and farther than the radius
C13_BeyondRadiusLeftOut ==
  /\ nearby.pc = "done"
  /\ Len(nearby.result) >= 1
  /\ \E i \in Indexes :
       LET bbox == get_bounding_box(nearby.lat, nearby.lon, nearby.radius_m)
       IN  /\ reports[i].is_active
           /\ reports[i].expires_at > nearby.now
           /\ reports[i].latitude >= bbox.min_lat /\ reports[i].latitude <= bbox.max_lat
           /\ reports[i].longitude >= bbox.min_lon /\ reports[i].longitude <= bbox.max_lon
           /\ DistanceFrom(nearby, reports[i]) > nearby.radius_m * 10
           /\ \A k \in DOMAIN nearby.result : nearby.result[k].id # reports[i].id

\* C14 (as the code has it): the list a proximity query returns is in
\* ascending order of distance_meters, entries of equal distance_meters
\* following one another in any order.
C14_SortedAscending ==
  /\ nearby.pc = "done"
       => \A k \in 1..(Len(nearby.result) - 1) :
            nearby.result[k].distance_meters <= nearby.result[k + 1].distance_meters
  /\ nearbyCams.pc = "done"
       => \A k \in 1..(Len(nearbyCams.result) - 1) :
            nearbyCams.result[k].distance_meters
              <= nearbyCams.result[k + 1].distance_meters

\* C14 (as stated): of two consecutive entries the earlier has the strictly
\* smaller distance_meters.
C14_SortedStrictlyAscending ==
  /\ nearby.pc = "done"
       => \A k \in 1..(Len(nearby.result) - 1) :
            nearby.result[k].distance_meters < nearby.result[k + 1].distance_meters
  /\ nearbyCams.pc = "done"
       => \A k \in 1..(Len(nearbyCams.result) - 1) :
            nearbyCams.result[k].distance_meters
              < nearbyCams.result[k + 1].distance_meters

\* A query for cameras has returned two cameras at different distances, the
\* nearer one first although it was stored after the farther one
C14_SortPutNearerFirst ==
  /\ nearbyCams.pc = "done"
  /\ Len(nearbyCams.result) >= 2
  /\ nearbyCams.result[1].distance_meters < nearbyCams.result[2].distance_meters
  /\ nearbyCams.result[1].id > nearbyCams.result[2].id

\* C15: the wait time of a rate-limited rejection is rate_limit_minutes less
\* the whole minutes elapsed from the created_at of a prior report of the
\* submitter and type to the request's 'now', the fraction of a minute
\* dropped (toward zero); with less than a minute elapsed it is
\* rate_limit_minutes.
C15_WaitTimeTruncates ==
  [][\A p \in Procs :
       (Returns(p) /\ resp'[p].kind = "rate_limited")
         => \E i \in Indexes :
              LET elapsed == now[p] - reports[i].created_at
                  whole == settings[p].rate_limit_minutes - resp'[p].n
              IN  /\ reports[i].user_id = req[p].user_id
                  /\ reports[i].report_type = req[p].report_type
                  /\ elapsed >= 0
                       => /\ whole >= 0
                          /\ whole * TicksPerMinute <= elapsed
                          /\ elapsed < (whole + 1) * TicksPerMinute
                  /\ elapsed < 0
                       => /\ whole <= 0
                          /\ whole * TicksPerMinute >= elapsed
                          /\ elapsed > (whole - 1) * TicksPerMinute
                  /\ (elapsed < TicksPerMinute /\ -elapsed < TicksPerMinute)
                       => resp'[p].n = settings[p].rate_limit_minutes
    ]_vars

\* A resubmission was rejected, under the default settings, with a wait time
\* below rate_limit_minutes: whole minutes had elapsed since the submitter's
\* report, the clock standing at a minute and a half
C15_RejectedAfterMinutes ==
  \E p \in Procs :
    /\ Returned(p)
    /\ resp[p].kind = "rate_limited"
    /\ resp[p].n = DefaultSettings.rate_limit_minutes - 1
    /\ clock = (3 * TicksPerMinute) \div 2
    /\ \A i \in Indexes : reports[i].created_at = 0

\* C16: a request is rejected by the rate-limit check exactly when the store
\* holds a report of the same user_id and the same report_type created no
\* earlier than rate_limit_minutes before the request's 'now'; reports of
\* other submitters or types, and the coordinates of the submission and of
\* the stored reports, have no part in it.
C16_RateLimitKeyedOnSubmitterAndType ==
  [][\A p \in Procs :
       (pc[p] = "rate" /\ pc'[p] # "rate")
         => LET own == { i \in Indexes :
                           /\ reports[i].user_id = req[p].user_id
                           /\ reports[i].report_type = req[p].report_type
                           /\ now[p] - reports[i].created_at
                                <= settings[p].rate_limit_minutes * TicksPerMinute }
            IN  (pc'[p] = "done" /\ resp'[p].kind = "rate_limited") <=> own # {}
    ]_vars

\* A submission was rejected although every report of its submitter and type
\* lies hundreds of kilometres from it, and a report of another submitter of
\* that type is already in the store
C16_RejectedFarFromOwnReport ==
  \E p \in Procs :
    /\ Returned(p)
    /\ resp[p].kind = "rate_limited"
    /\ \A i \in Indexes :
         (reports[i].user_id = req[p].user_id /\ reports[i].report_type = req[p].report_type)
           => haversine_distance(req[p].latitude, req[p].longitude,
                                 reports[i].latitude, reports[i].longitude) > 1000000
    /\ \E i \in Indexes : /\ reports[i].user_id # req[p].user_id
                          /\ reports[i].report_type = req[p].report_type

C18_NewReportExpiry ==
  [][\A p \in Procs :
       /\ (pc[p] \in {"idle", "done"} /\ pc'[p] = "rate")
            => /\ now'[p] = clock
               /\ settingsDoc = NoDoc
                    => /\ settings'[p].mobile_camera_ttl_minutes = 75
                       /\ settings'[p].police_check_ttl_minutes = 52
               /\ settingsDoc # NoDoc => settings'[p] = settingsDoc
       /\ (pc[p] \in {"rate", "dup", "insert"} /\ pc'[p] # "done")
            => now'[p] = now[p] /\ settings'[p] = settings[p]
       /\ (pc[p] = "insert" /\ pc'[p] = "done" /\ resp'[p].kind = "created")
            => LET new == reports'[Len(reports')]
               IN  /\ Len(reports') = Len(reports) + 1
                   /\ new.id = resp'[p].report_id
                   /\ new.confirmations = 1
                   /\ new.report_type = "mobile_camera"
                        => new.expires_at = now[p]
                             + settings[p].mobile_camera_ttl_minutes * TicksPerMinute
                   /\ new.report_type = "police_check"
                        => new.expires_at = now[p]
                             + settings[p].police_check_ttl_minutes * TicksPerMinute
    ]_vars

\* A mobile_camera report was created by a request that had read the default
\* settings at its start; by the time the report was constructed the clock
\* had moved on and other settings had been stored
C18_CreatedAfterChanges ==
  \E p \in Procs :
    /\ Returned(p)
    /\ resp[p].kind = "created"
    /\ settingsDoc # NoDoc
    /\ \E i \in Indexes :
         /\ reports[i].id = resp[p].report_id
         /\ reports[i].report_type = "mobile_camera"
         /\ reports[i].expires_at = accepted[KeyOf(req[p])] + 75 * TicksPerMinute
         /\ reports[i].created_at > accepted[KeyOf(req[p])]

\* C19: a create_report that starts after an update_settings has returned
\* works with the settings of the update_settings that returned last; and no
\* step changes the expires_at of a stored report.
C19_NextRequestSeesNewSettings ==
  [][/\ \A p \in Procs :
          (pc[p] \in {"idle", "done"} /\ pc'[p] = "rate" /\ completed # None)
            => settings'[p] = completed
     /\ \A i \in Indexes : reports'[i].expires_at = reports[i].expires_at
    ]_vars

\* C20: db.settings holds at most one document; get_settings gives the
\* defaults (75, 52, 200, 15, 5) as long as no update_settings has returned,
\* and after that the settings of the update_settings that returned last.
C20_LastWriteWinsRegister ==
  /\ strayDocs = <<>>
  /\ (completed = None /\ upserts = {})
       => get_settings = AppSettings(75, 52, 200, 15, 5)
  /\ completed # None => get_settings = completed

\* C21: two submissions of one type within duplicate_radius_meters of each
\* other, handled at the same time, can both be inserted; a request that
\* reaches the duplicate-merge pass while the store holds two such records it
\* can merge into goes on to merge into one of them, and constructs no third
\* record.
C21_RacedPairReconciled ==
  [][\A p \in Procs :
       (/\ pc[p] = "dup" /\ pc'[p] # "dup"
        /\ \E i, j \in Mergeable(p) :
              /\ i # j
              /\ reports[i].user_id # reports[j].user_id
              /\ WithinDuplicateRadius(reports[i], reports[j], settings[p]))
         => /\ pc'[p] = "inc"
            /\ \E i \in Mergeable(p) : existing'[p].id = reports[i].id
            /\ nextId' = nextId
    ]_vars

\* The race has happened: two reports of one type, within the duplicate
\* radius of one another, neither merged into the other, are in the store
C21_BothInserted ==
  \E i, j \in Indexes :
    /\ i < j
    /\ reports[i].report_type = reports[j].report_type
    /\ reports[i].user_id # reports[j].user_id
    /\ reports[i].created_at = reports[j].created_at
    /\ \A s \in AllSettings : WithinDuplicateRadius(reports[i], reports[j], s)
\* C22: for the center and the radius of a proximity query and every stored
\* point, a point whose haversine_distance to the center is at most the
\* radius lies inside the rectangle get_bounding_box returns for that center
\* and radius.
C22_BoxHoldsRadius ==
  nearbyCams.pc = "done" =>
    \A i \in 1..Len(cameras) :
      WithinMeters(haversine_distance(nearbyCams.lat, nearbyCams.lon,
                                      cameras[i].latitude, cameras[i].longitude),
                   nearbyCams.radius_m)
        => LET bbox == get_bounding_box(nearbyCams.lat, nearbyCams.lon,
                                        nearbyCams.radius_m)
           IN  /\ cameras[i].latitude >= bbox.min_lat
               /\ cameras[i].latitude <= bbox.max_lat
               /\ cameras[i].longitude >= bbox.min_lon
               /\ cameras[i].longitude <= bbox.max_lon
\* C23: the confirmations of a stored report never exceed the number of
\* distinct user_ids whose submissions created it or were merged into it.
C23_ConfirmationsCountSubmitters ==
  \A i \in Indexes :
    reports[i].confirmations <= Cardinality(confirmers[reports[i].id])
\* C24: when the calls run one at a time under unchanged settings, a record is
\* inserted only if the store holds no record of its type, unexpired at the
\* request's time and created within the duplicate window, within the
\* duplicate radius of it; and no two stored records form such a pair.
C24_NoNearDuplicateInserted ==
  /\ [](\A i, j \in Indexes :
          (/\ i < j
           /\ reports[i].report_type = reports[j].report_type
           /\ reports[i].is_active
           /\ reports[i].expires_at > reports[j].created_at
           /\ reports[i].created_at >=
                reports[j].created_at - minutes(get_settings.duplicate_time_window_minutes))
            => ~WithinDuplicateRadius(reports[i], reports[j], get_settings))
  /\ [][\A p \in Procs :
          (pc[p] = "insert" /\ pc'[p] = "done" /\ Len(reports') > Len(reports))
            => Mergeable(p) = {}
     ]_vars
\* C26: when the calls run one at a time under unchanged settings, any two
\* stored reports of one user_id and one report_type have created_at values
\* more than rate_limit_minutes apart; and a submission whose 'now' is more
\* than rate_limit_minutes after every stored report of its submitter and
\* type is not rate-limited.
C26_RateLimitSpacing ==
  /\ [](\A i, j \in Indexes :
          (/\ i < j
           /\ reports[i].user_id = reports[j].user_id
           /\ reports[i].report_type = reports[j].report_type)
            => reports[j].created_at - reports[i].created_at
                 > minutes(get_settings.rate_limit_minutes))
  /\ [][\A p \in Procs :
          (/\ pc[p] = "rate" /\ pc'[p] # "rate"
           /\ \A i \in Indexes :
                 (/\ reports[i].user_id = req[p].user_id
                  /\ reports[i].report_type = req[p].report_type)
                   => now[p] - reports[i].created_at
                        > minutes(settings[p].rate_limit_minutes))
            => pc'[p] = "dup"
     ]_vars

\* A submitter has two reports of one type in the store: the second was
\* accepted once the rate limit had run out
C26_ReportedAgainAfterLimit ==
  \E i, j \in Indexes :
    /\ i < j
    /\ reports[i].user_id = reports[j].user_id
    /\ reports[i].report_type = reports[j].report_type
    /\ reports[j].created_at - reports[i].created_at
         > minutes(get_settings.rate_limit_minutes)
\* one document of rs has its confirmations raised by one in rs2, and nothing
\* else differs between the two
OneIncrement(rs, rs2, id) ==
  /\ Len(rs2) = Len(rs)
  /\ \E i \in DOMAIN rs :
       /\ rs[i].id = id
       /\ rs2[i] = [rs[i] EXCEPT !.confirmations = @ + 1]
       /\ \A j \in DOMAIN rs \ {i} : rs2[j] = rs[j]

\* rs2 is rs with one document added at its end
OneInsert(rs, rs2) ==
  /\ Len(rs2) = Len(rs) + 1
  /\ \A j \in DOMAIN rs : rs2[j] = rs[j]

\* C25: a create_report call ends in one of four outcomes, rate-limited,
\* merged, created or error, and writes to the store at most once, in the
\* step it ends with: nothing when rate-limited, one increment of the
\* confirmations of one report when merged, one insert when created, at most
\* one of the two when it fails; no other step changes the stored reports.
C25_OneOutcomeOneWrite ==
  [][/\ \A p \in Procs :
          Returns(p) =>
            /\ resp'[p].kind \in {"rate_limited", "merged", "created", "error"}
            /\ resp'[p].kind = "rate_limited" =>
                  pc[p] = "rate" /\ reports' = reports
            /\ resp'[p].kind = "merged" =>
                  pc[p] = "inc" /\ OneIncrement(reports, reports', resp'[p].report_id)
            /\ resp'[p].kind = "created" =>
                  pc[p] = "insert" /\ OneInsert(reports, reports')
            /\ resp'[p].kind = "error" =>
                  \/ reports' = reports
                  \/ pc[p] = "inc" /\ OneIncrement(reports, reports', existing[p].id)
                  \/ pc[p] = "insert" /\ OneInsert(reports, reports')
     /\ reports' # reports => \E p \in Procs : Returns(p)
     /\ \A p \in Procs :
          /\ pc[p] = "rate" => pc'[p] \in {"rate", "dup", "done"}
          /\ pc[p] = "dup" => pc'[p] \in {"dup", "inc", "insert", "done"}
          /\ pc[p] = "inc" => pc'[p] \in {"inc", "done"}
          /\ pc[p] = "insert" => pc'[p] \in {"insert", "done"}
    ]_vars

\* A merge has been answered while the store holds two reports of the type
\* within the radius of the submission: one of them has the confirmation, the
\* other has none
C25_MergedNextToTwo ==
  \E p \in Procs :
    /\ Returned(p)
    /\ resp[p].kind = "merged"
    /\ \E i, j \in Indexes :
         /\ i # j
         /\ reports[i].id = resp[p].report_id
         /\ reports[i].confirmations = 2
         /\ reports[j].confirmations = 1
         /\ reports[j].report_type = req[p].report_type
         /\ \A s \in AllSettings :
              /\ WithinDuplicateRadius(reports[i], req[p], s)
              /\ WithinDuplicateRadius(reports[j], req[p], s)
====
